---- MODULE Spec2Model ----
(***************************************************************************)
(* Model of the WASM dynarec backend of rec_wasm.cpp (class WasmDynarec):  *)
(* the binding hook init, compile's code-buffer accounting and the         *)
(* interpreter-fallback dispatch loop mainloop, followed statement by      *)
(* statement through its two do-while loops and its two catch clauses.     *)
(*                                                                         *)
(* The collaborators the file only calls (IReadMem16, OpDesc/OpPtr,        *)
(* Do_Exception, UpdateSystem_INTC, Sh4CodeBuffer, the driver that starts  *)
(* and stops the processor) are modelled as nondeterministic environments  *)
(* restricted to what their callers' interface description allows.         *)
(***************************************************************************)
EXTENDS Integers, Sequences, FiniteSets, TLC

VARIABLES
    sh4ctx,         \* WasmDynarec::sh4ctx: "null" or "ctx"
    codeBuffer,     \* WasmDynarec::codeBuffer: "null" or "buf"
    pc,             \* sh4ctx->pc
    FD,             \* sh4ctx->sr.FD
    cycle_counter,  \* sh4ctx->cycle_counter
    CpuRunning,     \* sh4ctx->CpuRunning
    fpstate,        \* the floating-point registers (one bit of them)
    bufSize,        \* capacity of the Sh4CodeBuffer lent by the driver
    cursor,         \* bytes of the code buffer already handed out
    blocks,         \* block->code of every block compiled since the last reset
    loc,            \* position of the thread of control in or around mainloop
    addr,           \* mainloop local: address of the fetched instruction
    op,             \* mainloop local: the fetched opcode
    ex,             \* the SH4ThrownException in flight
    insn_count,     \* mainloop local
    timeslice_count,\* mainloop local
    exited_via_exception, \* mainloop local
    fetched,        \* history: instruction fetches of this mainloop call
    opCalls,        \* history: calls of OpPtr[op] of this mainloop call
    updCalls,       \* history: calls of UpdateSystem_INTC of this mainloop call
    excRaised,      \* history: SH4ThrownExceptions raised in this mainloop call
    excCalls,       \* history: calls of Do_Exception of this mainloop call
    excArgs,        \* history: arguments of the last Do_Exception call
    drains,         \* history: drain adjustments of this mainloop call
    handlerPc,      \* history: pc written by the last Do_Exception, -1 if none pending
    via,            \* history: the step that led to the outer loop condition
    halt,           \* history: the halt request observed during this mainloop call
    sh4Dynarec,     \* the global backend pointer: "null" or "instance"
    rewriteResult,  \* history: what the last rewrite call returned, "none" before
    registerCalls   \* history: calls of wasm_dynarec_init so far

vars == << sh4ctx, codeBuffer, pc, FD, cycle_counter, CpuRunning, fpstate,
           bufSize, cursor, blocks, loc, addr, op, ex, insn_count,
           timeslice_count, exited_via_exception, fetched, opCalls, updCalls,
           excRaised, excCalls, excArgs, drains, handlerPc, via, halt,
           sh4Dynarec, rewriteResult, registerCalls >>

ctxVars  == << pc, FD, cycle_counter, CpuRunning, fpstate >>
bufVars  == << bufSize, cursor, blocks >>
bindVars == << sh4ctx, codeBuffer >>
loopVars == << loc, addr, op, ex, insn_count, timeslice_count,
               exited_via_exception >>
histVars == << fetched, opCalls, updCalls, excRaised, excCalls, excArgs, drains,
               handlerPc, via, halt >>
envVars  == << sh4Dynarec, rewriteResult, registerCalls >>

---------------------------------------------------------------------------
(* Bounds of the model *)

\* addresses are u32 in the code; the model keeps the wrap-around with a
\* narrower address space
PcSpace == 8
\* instruction fetches explored per mainloop call
MaxFetch == 4
\* largest cycle budget the driver hands to mainloop
MaxEntryCycles == 3
\* the timeslice quantum (sh4_sched.h, not part of this file)
SH4_TIMESLICE == 3
\* calls of wasm_dynarec_init followed
MaxRegisterCalls == 2
\* how far below zero the cycle budget handed to mainloop may be
LowBudgets == 2
\* cycle budget at entry in the single-timeslice scenario
ScenarioCycles == 10
\* capacity of the larger of the two code buffers explored
MaxBufSize == 10
\* blocks compiled between two resets
MaxBlocks == 3

(* Program constants *)
CYCLES_PER_INSTRUCTION == 1
spaceNeeded == 4
EXCEPTION_DRAIN == 5

---------------------------------------------------------------------------
(* Values *)

Opcodes == {"mov_l", "fadd", "bra"}

NoEx == [epc |-> -1, expEvn |-> "none"]
NoHalt == [seen |-> FALSE, budget |-> 0, insns |-> 0, rolls |-> 0]

SH4ThrownException(epc, expEvn) == [epc |-> epc, expEvn |-> expEvn]

U32(n) == n % PcSpace

InLoop == {"fetch", "dispatch", "rollover", "catch", "outerCheck"}

---------------------------------------------------------------------------
(* The collaborators mainloop calls *)

\* OpDesc[op]->IsFloatingPoint()
IsFloatingPoint(o) == o = "fadd"

\* IReadMem16(addr): the opcode word, a processor exception of the
\* instruction fetch (MMU), or a failure that is no processor exception
IReadMem16(a) ==
    { [kind |-> "ok", op |-> o, ex |-> NoEx] : o \in Opcodes }
    \cup { [kind |-> "sh4ex", op |-> "none",
            ex |-> SH4ThrownException(a, "Sh4Ex_TlbMissExec")] }
    \cup { [kind |-> "other", op |-> "none", ex |-> NoEx] }

\* OpPtr[op](sh4ctx, op): the semantics table. p, fd, fp are the context's
\* pc (already advanced), sr.FD and floating-point state at the call.
OpPtr(o, p, fd, fp) ==
    CASE o = "mov_l" ->
           { [kind |-> "ok", pc |-> p, FD |-> fd, fp |-> fp, ex |-> NoEx],
             [kind |-> "sh4ex", pc |-> p, FD |-> fd, fp |-> fp,
              ex |-> SH4ThrownException(U32(p + PcSpace - 2), "Sh4Ex_TlbMissRead")],
             [kind |-> "other", pc |-> p, FD |-> fd, fp |-> fp, ex |-> NoEx] }
      [] o = "fadd" ->
           { [kind |-> "ok", pc |-> p, FD |-> fd, fp |-> 1 - fp, ex |-> NoEx] }
      [] o = "bra" ->
           { [kind |-> "ok", pc |-> t, FD |-> fd, fp |-> fp, ex |-> NoEx] :
               t \in {U32(p + 2), U32(p + PcSpace - 4)} }

\* Do_Exception(epc, expEvn): the exception entry step writes the handler
\* address (vbr + the vector offset of the kind) to pc, or fails
Do_Exception(epc, expEvn) ==
    { [kind |-> "ok",
       pc |-> IF expEvn \in {"Sh4Ex_TlbMissRead", "Sh4Ex_TlbMissExec"}
              THEN U32(4) ELSE U32(0)],
      [kind |-> "other", pc |-> -1] }

\* UpdateSystem_INTC(): may deliver an interrupt (pc rewritten), may stop
\* the processor (a scheduled event), or fails
UpdateSystem_INTC(p, running) ==
    { [kind |-> "ok", pc |-> q, running |-> r] :
        q \in {p, U32(6)}, r \in {running, FALSE} }
    \cup { [kind |-> "other", pc |-> p, running |-> running] }

\* Sh4CodeBuffer
get(cur) == cur
getFreeSpace(size, cur) == size - cur
advance(cur, n) == cur + n

---------------------------------------------------------------------------
(* Pieces of mainloop and compile *)

\* mutant: the pc is not advanced before the dispatch
AdvancePcLate(a) == a

\* sh4ctx->pc = addr + 2
AdvancePc(a) == U32(a + 2)

\* mutant: the FPU-disabled check is missing
FpuDisabledCheckOff(fd, o) == FALSE

\* if (sh4ctx->sr.FD == 1 && OpDesc[op]->IsFloatingPoint())
FpuDisabledCheck(fd, o) == fd = 1 /\ IsFloatingPoint(o)

\* throw SH4ThrownException(addr, Sh4Ex_FpuDisabled)
FpuDisabledException(a, p) == SH4ThrownException(a, "Sh4Ex_FpuDisabled")

\* mutant: the inner loop runs one instruction past the budget
InnerLoopOffByOne(c, running) == c >= 0

\* mutant: the inner loop also ends on the running flag
InnerLoopChecksRunning(c, running) == c > 0 /\ running

\* } while (sh4ctx->cycle_counter > 0);
InnerLoopContinues(c, running) == c > 0

\* sh4ctx->cycle_counter += SH4_TIMESLICE
Replenish(c) == c + SH4_TIMESLICE

\* mutant: the drain adjustment is applied twice
ExceptionDrainTwice(c) == c + 2 * EXCEPTION_DRAIN

\* sh4ctx->cycle_counter += 5
ExceptionDrain(c) == c + EXCEPTION_DRAIN

\* mutant: the outer loop never looks at the running flag
OuterLoopForever(running) == TRUE

\* } while (sh4ctx->CpuRunning);
OuterLoopContinues(running) == running

\* mutant: the cursor is advanced without looking at the free space
HasSpaceAlways(size, cur) == TRUE

\* mutant: a unit that fits exactly is refused
HasSpaceStrict(size, cur) == getFreeSpace(size, cur) > spaceNeeded

\* if (codeBuffer->getFreeSpace() >= spaceNeeded)
HasSpace(size, cur) == getFreeSpace(size, cur) >= spaceNeeded

---------------------------------------------------------------------------
\* The static instance is constructed and nothing is bound yet. The driver
\* owns the context: its budget is positive, as mainloop leaves it when it
\* returns (a rollover or a drain adjustment is the last change made to it).
\* the state after construction, for the cycle budgets the driver may hand over
InitWith(budgets, dynarec, at) ==
    /\ sh4ctx = "null"
    /\ codeBuffer = "null"
    /\ pc \in {0, PcSpace - 2}
    /\ FD \in {0, 1}
    /\ cycle_counter \in budgets
    /\ CpuRunning \in BOOLEAN
    /\ fpstate = 0
    /\ bufSize \in {spaceNeeded, MaxBufSize}
    /\ cursor = 0
    /\ blocks = << >>
    /\ loc = at
    /\ addr = 0
    /\ op = "none"
    /\ ex = NoEx
    /\ insn_count = 0
    /\ timeslice_count = 0
    /\ exited_via_exception = FALSE
    /\ fetched = 0
    /\ opCalls = 0
    /\ updCalls = 0
    /\ excRaised = 0
    /\ excCalls = 0
    /\ excArgs = NoEx
    /\ drains = 0
    /\ handlerPc = -1
    /\ via = "none"
    /\ halt = NoHalt
    /\ sh4Dynarec = dynarec
    /\ rewriteResult = "none"
    /\ registerCalls = 0

Init == InitWith(1..MaxEntryCycles, "instance", "idle")

\* mutant: the constructor does not register the instance
WasmDynarecUnregistered ==
    /\ loc = "static"
    /\ loc' = "idle"
    /\ sh4ctx' = "null"
    /\ codeBuffer' = "null"
    /\ UNCHANGED << ctxVars, bufVars, addr, op, ex, insn_count,
                    timeslice_count, exited_via_exception, histVars, envVars >>

\* WasmDynarec() { sh4Dynarec = this; }, run once by the static initialiser
\* of `instance`, with the member initialisers of sh4ctx and codeBuffer
WasmDynarec ==
    /\ loc = "static"
    /\ loc' = "idle"
    /\ sh4Dynarec' = "instance"
    /\ sh4ctx' = "null"
    /\ codeBuffer' = "null"
    /\ UNCHANGED << ctxVars, bufVars, addr, op, ex, insn_count,
                    timeslice_count, exited_via_exception, histVars,
                    rewriteResult, registerCalls >>

\* void wasm_dynarec_init() { if (!sh4Dynarec) sh4Dynarec = &instance; }
wasm_dynarec_init ==
    /\ loc \in {"static", "idle", "returned"}
    /\ registerCalls < MaxRegisterCalls
    /\ registerCalls' = registerCalls + 1
    /\ sh4Dynarec' = IF sh4Dynarec = "null" THEN "instance" ELSE sh4Dynarec
    /\ UNCHANGED << ctxVars, bufVars, bindVars, loopVars, histVars,
                    rewriteResult >>

\* void init(Sh4Context& ctx, Sh4CodeBuffer& buf)
init ==
    /\ loc \in {"idle", "returned"}
    /\ sh4ctx' = "ctx"
    /\ codeBuffer' = "buf"
    /\ UNCHANGED << ctxVars, bufVars, loopVars, histVars >>
    /\ UNCHANGED envVars

\* void compile(RuntimeBlockInfo* block, bool smc_checks, bool optimise)
compile ==
    /\ loc \in {"idle", "returned"}
    /\ codeBuffer = "buf"
    /\ Len(blocks) < MaxBlocks
    /\ blocks' = Append(blocks, get(cursor))
    /\ cursor' = IF HasSpace(bufSize, cursor)
                 THEN advance(cursor, spaceNeeded)
                 ELSE cursor
    /\ UNCHANGED << bufSize, bindVars, ctxVars, loopVars, histVars >>
    /\ UNCHANGED envVars

\* what a read through the null codeBuffer may yield as a block entry: the
\* null address itself or an address outside every buffer
WildEntries == {0, -2}

\* compile before init has bound a code buffer: line 63 calls get() through
\* the null codeBuffer. The behaviour is undefined: the call traps, or it
\* returns and the block's entry holds whatever was read.
compileUnbound ==
    /\ loc \in {"idle", "returned"}
    /\ codeBuffer = "null"
    /\ Len(blocks) < MaxBlocks
    /\ \/ /\ loc' = "crashed"
          /\ UNCHANGED blocks
       \/ /\ \E e \in WildEntries : blocks' = Append(blocks, e)
          /\ UNCHANGED loc
    /\ UNCHANGED << bufSize, cursor, bindVars, ctxVars, addr, op, ex,
                    insn_count, timeslice_count, exited_via_exception,
                    histVars >>
    /\ UNCHANGED envVars

\* the part of the state the fault, reset and canonical-call hooks could reach:
\* the processor context, the code buffer and the bound references
CurState ==
    [pc |-> pc, FD |-> FD, cycle_counter |-> cycle_counter,
     CpuRunning |-> CpuRunning, bufSize |-> bufSize, cursor |-> cursor,
     sh4ctx |-> sh4ctx, codeBuffer |-> codeBuffer]

SetState(st) ==
    /\ pc' = st.pc
    /\ FD' = st.FD
    /\ cycle_counter' = st.cycle_counter
    /\ CpuRunning' = st.CpuRunning
    /\ bufSize' = st.bufSize
    /\ cursor' = st.cursor
    /\ sh4ctx' = st.sh4ctx
    /\ codeBuffer' = st.codeBuffer

\* void handleException(host_context_t& context) {}
handleException(st) == st

\* mutant: rewrite reports a patched access
rewritePatches(st) == [state |-> st, result |-> "true"]

\* bool rewrite(host_context_t& context, void* faultAddress) { return false; }
rewrite(st) == [state |-> st, result |-> "false"]

\* void reset() {}
reset(st) == st

\* void canonStart(const shil_opcode* op) {}
canonStart(st) == st

\* void canonParam(const shil_opcode* op, const shil_param* par, CanonicalParamType tp) {}
canonParam(st) == st

\* void canonCall(const shil_opcode* op, void* function) {}
canonCall(st) == st

\* void canonFinish(const shil_opcode* op) {}
canonFinish(st) == st

\* a call of a hook that returns nothing
HookCall(after) ==
    /\ loc \notin {"static", "crashed"}
    /\ SetState(after)
    /\ UNCHANGED << fpstate, blocks, loopVars, histVars, envVars >>

HandleExceptionHook == HookCall(handleException(CurState))

RewriteHook ==
    /\ loc \notin {"static", "crashed"}
    /\ SetState(rewrite(CurState).state)
    /\ rewriteResult' = rewrite(CurState).result
    /\ UNCHANGED << fpstate, blocks, loopVars, histVars, sh4Dynarec,
                    registerCalls >>

CanonStartHook == HookCall(canonStart(CurState))

CanonParamHook == HookCall(canonParam(CurState))

CanonCallHook == HookCall(canonCall(CurState))

CanonFinishHook == HookCall(canonFinish(CurState))

\* the driver clears the code buffer, drops every block and calls reset()
ClearCache ==
    /\ loc \in {"idle", "returned"}
    /\ codeBuffer = "buf"
    /\ blocks # << >>
    /\ blocks' = << >>
    /\ SetState(reset([CurState EXCEPT !.cursor = 0]))
    /\ UNCHANGED << fpstate, loopVars, histVars, envVars >>

\* the driver starts the processor
Start ==
    /\ loc \in {"idle", "returned"}
    /\ ~CpuRunning
    /\ CpuRunning' = TRUE
    /\ loc' = "idle"
    /\ UNCHANGED << pc, FD, cycle_counter, fpstate, bufVars, bindVars,
                    addr, op, ex, insn_count, timeslice_count,
                    exited_via_exception, histVars >>
    /\ UNCHANGED envVars

\* a host halt request clears the running flag, at any point of mainloop
Stop ==
    /\ loc \in InLoop \cup {"idle"}
    /\ CpuRunning
    /\ CpuRunning' = FALSE
    /\ halt' = IF loc \in InLoop
               THEN [seen |-> TRUE, budget |-> cycle_counter,
                     insns |-> 0, rolls |-> 0]
               ELSE halt
    /\ UNCHANGED << pc, FD, cycle_counter, fpstate, bufVars, bindVars,
                    loopVars, fetched, opCalls, updCalls, excRaised,
                    excCalls, excArgs, drains, handlerPc, via >>
    /\ UNCHANGED envVars

\* void mainloop(void* cntx): entry, up to the first do
mainloopFrom(maxEntry) ==
    /\ loc \in {"idle", "returned"}
    /\ sh4ctx = "ctx"
    /\ cycle_counter <= maxEntry
    /\ loc' = "fetch"
    /\ insn_count' = 0
    /\ timeslice_count' = 0
    /\ exited_via_exception' = FALSE
    /\ addr' = 0
    /\ op' = "none"
    /\ ex' = NoEx
    /\ fetched' = 0
    /\ opCalls' = 0
    /\ updCalls' = 0
    /\ excRaised' = 0
    /\ excCalls' = 0
    /\ excArgs' = NoEx
    /\ drains' = 0
    /\ handlerPc' = -1
    /\ via' = "none"
    /\ halt' = NoHalt
    /\ UNCHANGED << ctxVars, bufVars, bindVars >>
    /\ UNCHANGED envVars

mainloop == mainloopFrom(MaxEntryCycles)

\* u32 addr = sh4ctx->pc; sh4ctx->pc = addr + 2; u16 op = IReadMem16(addr);
FetchUpTo(cap) ==
    /\ loc = "fetch"
    /\ fetched < cap
    /\ addr' = pc
    /\ pc' = AdvancePc(pc)
    /\ fetched' = fetched + 1
    /\ handlerPc' = -1
    /\ \E r \in IReadMem16(pc) :
         /\ op' = r.op
         /\ ex' = r.ex
         /\ excRaised' = IF r.kind = "sh4ex" THEN excRaised + 1 ELSE excRaised
         /\ loc' = CASE r.kind = "ok" -> "dispatch"
                     [] r.kind = "sh4ex" -> "catch"
                     [] r.kind = "other" -> "catchall"
    /\ UNCHANGED << FD, cycle_counter, CpuRunning, fpstate, bufVars, bindVars,
                    insn_count, timeslice_count, exited_via_exception,
                    opCalls, updCalls, excCalls, excArgs, drains, via, halt >>
    /\ UNCHANGED envVars

Fetch == FetchUpTo(MaxFetch)

\* the FPU-disabled check, OpPtr[op](sh4ctx, op), the cycle and instruction
\* counts and the inner loop condition
Dispatch ==
    /\ loc = "dispatch"
    /\ halt' = IF halt.seen THEN [halt EXCEPT !.insns = @ + 1] ELSE halt
    /\ IF FpuDisabledCheck(FD, op)
       THEN /\ ex' = FpuDisabledException(addr, pc)
            /\ excRaised' = excRaised + 1
            /\ loc' = "catch"
            /\ UNCHANGED << pc, FD, fpstate, cycle_counter, insn_count, opCalls >>
       ELSE /\ opCalls' = opCalls + 1
            /\ \E r \in OpPtr(op, pc, FD, fpstate) :
                 \/ /\ r.kind = "ok"
                    /\ pc' = r.pc
                    /\ FD' = r.FD
                    /\ fpstate' = r.fp
                    /\ cycle_counter' = cycle_counter - CYCLES_PER_INSTRUCTION
                    /\ insn_count' = insn_count + 1
                    /\ loc' = IF InnerLoopContinues(cycle_counter', CpuRunning)
                              THEN "fetch" ELSE "rollover"
                    /\ UNCHANGED << ex, excRaised >>
                 \/ /\ r.kind = "sh4ex"
                    /\ ex' = r.ex
                    /\ excRaised' = excRaised + 1
                    /\ loc' = "catch"
                    /\ UNCHANGED << pc, FD, fpstate, cycle_counter, insn_count >>
                 \/ /\ r.kind = "other"
                    /\ loc' = "catchall"
                    /\ UNCHANGED << pc, FD, fpstate, cycle_counter, insn_count,
                                    ex, excRaised >>
    /\ UNCHANGED << CpuRunning, bufVars, bindVars, addr, op, timeslice_count,
                    exited_via_exception, fetched, updCalls, excCalls, excArgs,
                    drains, handlerPc, via >>
    /\ UNCHANGED envVars

\* sh4ctx->cycle_counter += SH4_TIMESLICE; timeslice_count++; UpdateSystem_INTC();
Rollover ==
    /\ loc = "rollover"
    /\ cycle_counter' = Replenish(cycle_counter)
    /\ timeslice_count' = timeslice_count + 1
    /\ updCalls' = updCalls + 1
    /\ via' = "rollover"
    /\ \E r \in UpdateSystem_INTC(pc, CpuRunning) :
         /\ pc' = r.pc
         /\ CpuRunning' = r.running
         /\ loc' = IF r.kind = "ok" THEN "outerCheck" ELSE "catchall"
         /\ halt' = IF halt.seen
                    THEN [halt EXCEPT !.rolls = @ + 1]
                    ELSE IF CpuRunning /\ ~r.running
                         THEN [seen |-> TRUE, budget |-> cycle_counter',
                               insns |-> 0, rolls |-> 0]
                         ELSE halt
    /\ UNCHANGED << FD, fpstate, bufVars, bindVars, addr, op, ex, insn_count,
                    exited_via_exception, fetched, opCalls, excRaised,
                    excCalls, excArgs, drains, handlerPc >>
    /\ UNCHANGED envVars

\* mutant: no per-instruction handler, the exception unwinds to catch (...)
CatchMissing ==
    /\ loc = "catch"
    /\ loc' = "catchall"
    /\ UNCHANGED << ctxVars, bufVars, bindVars, addr, op, ex, insn_count,
                    timeslice_count, exited_via_exception, histVars >>
    /\ UNCHANGED envVars

\* catch (const SH4ThrownException& ex) { Do_Exception(ex.epc, ex.expEvn);
\*                                        sh4ctx->cycle_counter += 5; }
Catch ==
    /\ loc = "catch"
    /\ excCalls' = excCalls + 1
    /\ excArgs' = [epc |-> ex.epc, expEvn |-> ex.expEvn]
    /\ via' = "catch"
    /\ \E r \in Do_Exception(ex.epc, ex.expEvn) :
         \/ /\ r.kind = "ok"
            /\ pc' = r.pc
            /\ handlerPc' = r.pc
            /\ cycle_counter' = ExceptionDrain(cycle_counter)
            /\ drains' = drains + 1
            /\ loc' = "outerCheck"
         \/ /\ r.kind = "other"
            /\ loc' = "catchall"
            /\ UNCHANGED << pc, handlerPc, cycle_counter, drains >>
    /\ ex' = NoEx
    /\ UNCHANGED << FD, CpuRunning, fpstate, bufVars, bindVars, addr, op,
                    insn_count, timeslice_count, exited_via_exception,
                    fetched, opCalls, updCalls, excRaised, halt >>
    /\ UNCHANGED envVars

\* } while (sh4ctx->CpuRunning);
OuterCheck ==
    /\ loc = "outerCheck"
    /\ loc' = IF OuterLoopContinues(CpuRunning) THEN "fetch" ELSE "exit"
    /\ UNCHANGED << ctxVars, bufVars, bindVars, addr, op, ex, insn_count,
                    timeslice_count, exited_via_exception, histVars >>
    /\ UNCHANGED envVars

\* mutant: the catch-all clause resumes the loop
CatchAllRetries ==
    /\ loc = "catchall"
    /\ exited_via_exception' = TRUE
    /\ loc' = "fetch"
    /\ UNCHANGED << ctxVars, bufVars, bindVars, addr, op, ex, insn_count,
                    timeslice_count, histVars >>
    /\ UNCHANGED envVars

\* catch (...) { exited_via_exception = true; }
CatchAll ==
    /\ loc = "catchall"
    /\ exited_via_exception' = TRUE
    /\ loc' = "exit"
    /\ UNCHANGED << ctxVars, bufVars, bindVars, addr, op, ex, insn_count,
                    timeslice_count, histVars >>
    /\ UNCHANGED envVars

\* mutant: the running flag is not cleared on the way out
ExitKeepsFlag ==
    /\ loc = "exit"
    /\ loc' = "returned"
    /\ UNCHANGED << ctxVars, bufVars, bindVars, addr, op, ex, insn_count,
                    timeslice_count, exited_via_exception, histVars >>
    /\ UNCHANGED envVars

\* sh4ctx->CpuRunning = false; and the return to the driver
Exit ==
    /\ loc = "exit"
    /\ CpuRunning' = FALSE
    /\ loc' = "returned"
    /\ UNCHANGED << pc, FD, cycle_counter, fpstate, bufVars, bindVars, addr,
                    op, ex, insn_count, timeslice_count, exited_via_exception,
                    histVars >>
    /\ UNCHANGED envVars

\* the operations on the code buffer
NextBuffer ==
    \/ init
    \/ compile
    \/ ClearCache

\* the dispatch loop and the driver around it
NextLoop ==
    \/ init
    \/ Start
    \/ Stop
    \/ mainloop
    \/ Fetch
    \/ Dispatch
    \/ Rollover
    \/ Catch
    \/ OuterCheck
    \/ CatchAll
    \/ Exit

\* mainloop as the one thread that runs it, with init but without the start
\* and halt requests of the host
NextDispatch ==
    \/ init
    \/ mainloop
    \/ Fetch
    \/ Dispatch
    \/ Rollover
    \/ Catch
    \/ OuterCheck
    \/ CatchAll
    \/ Exit

\* the hooks of the host fault path and of the canonical-call lowering
NextHooks ==
    \/ HandleExceptionHook
    \/ RewriteHook
    \/ CanonStartHook
    \/ CanonParamHook
    \/ CanonCallHook
    \/ CanonFinishHook

\* the registration of the backend at process start
NextStartup ==
    \/ WasmDynarec
    \/ wasm_dynarec_init

Next ==
    \/ NextStartup
    \/ NextBuffer
    \/ compileUnbound
    \/ NextLoop
    \/ NextHooks

\* before the static initialisers run: sh4Dynarec is zero-initialised
StartupInit == InitWith(1..MaxEntryCycles, "null", "static")

Spec == StartupInit /\ [][Next]_vars

\* the registration followed by the contract operations of a bound backend
NextRegistered ==
    \/ NextStartup
    \/ NextBuffer
    \/ NextDispatch

StartupSpec == StartupInit /\ [][NextRegistered]_vars

\* compile and reset touch only the code buffer and the blocks, the dispatch
\* loop only the processor context: each half is also explored on its own
BufferSpec == Init /\ [][NextBuffer]_vars

LoopSpec == Init /\ [][NextLoop]_vars

\* the hooks called at any point of a backend that is used as the contract
\* asks: compile only once init has bound the code buffer
NextHooked ==
    \/ NextBuffer
    \/ NextDispatch
    \/ NextHooks

HookSpec == Init /\ [][NextHooked]_vars

\* the dispatch loop entered with any budget, exhausted ones included
AnyBudgetInit == InitWith((0 - LowBudgets)..MaxEntryCycles, "instance", "idle")

AnyBudgetSpec == AnyBudgetInit /\ [][NextLoop]_vars

\* the code buffer with the compile calls a driver may make before init
NextUnbound ==
    \/ NextBuffer
    \/ compileUnbound

UnboundSpec == Init /\ [][NextUnbound]_vars

\* mainloop runs on one thread that executes statement after statement: a
\* step of the loop that is possible is eventually taken. Nothing is assumed
\* of the driver (init, Start, Stop, the call of mainloop).
FairLoopSpec ==
    /\ LoopSpec
    /\ WF_vars(Fetch) /\ WF_vars(Dispatch) /\ WF_vars(Rollover)
    /\ WF_vars(Catch) /\ WF_vars(OuterCheck) /\ WF_vars(CatchAll)
    /\ WF_vars(Exit)

---------------------------------------------------------------------------
\* one call of mainloop that starts with a budget of ScenarioCycles and is
\* followed for one instruction more than the budget pays for
ScenarioInit == InitWith({ScenarioCycles}, "instance", "idle")

ScenarioMainloop ==
    /\ cycle_counter = ScenarioCycles
    /\ mainloopFrom(ScenarioCycles)

ScenarioFetch == FetchUpTo(ScenarioCycles + 1)

ScenarioNext ==
    \/ init
    \/ Start
    \/ Stop
    \/ ScenarioMainloop
    \/ ScenarioFetch
    \/ Dispatch
    \/ Rollover
    \/ Catch
    \/ OuterCheck
    \/ CatchAll
    \/ Exit

ScenarioSpec == ScenarioInit /\ [][ScenarioNext]_vars

---------------------------------------------------------------------------
(* Properties *)

\* C1: when sr.FD is 1 and the fetched opcode is a floating-point opcode,
\* the dispatch step does not call the semantics function: it raises
\* Sh4Ex_FpuDisabled with the address the opcode was fetched from (not the
\* advanced pc) and leaves the floating-point state as it was.
FpuDisabledRaises ==
    [][ (loc = "dispatch" /\ loc' # "dispatch" /\ FD = 1 /\ IsFloatingPoint(op))
        => /\ loc' = "catch"
           /\ ex' = SH4ThrownException(addr, "Sh4Ex_FpuDisabled")
           /\ ex'.epc # pc
           /\ opCalls' = opCalls
           /\ fpstate' = fpstate ]_vars

FpuDisabledRaised ==
    /\ loc = "catch"
    /\ FD = 1
    /\ op = "fadd"
    /\ ex = SH4ThrownException(addr, "Sh4Ex_FpuDisabled")
    /\ opCalls = 0

\* C2: whenever an instruction is about to be dispatched (the FPU-disabled
\* check or the semantics function runs next), pc is the address it was
\* fetched from plus 2, in the address arithmetic of the machine.
PcAdvancedBeforeDispatch ==
    loc = "dispatch" => pc = U32(addr + 2)

DispatchAtWrappedPc ==
    /\ loc = "dispatch"
    /\ addr = PcSpace - 2
    /\ pc = 0

\* C3: after a normally completed instruction the loop goes to the rollover
\* exactly when cycle_counter <= 0; a rollover adds SH4_TIMESLICE to
\* cycle_counter and calls UpdateSystem_INTC once, and UpdateSystem_INTC is
\* called nowhere else.
RolloverExact ==
    [][ /\ (loc = "dispatch" /\ insn_count' = insn_count + 1)
           => /\ loc' \in {"fetch", "rollover"}
              /\ loc' = "rollover" <=> cycle_counter' <= 0
        /\ (loc = "rollover" /\ loc' # "rollover")
           => /\ cycle_counter <= 0
              /\ cycle_counter' = cycle_counter + SH4_TIMESLICE
              /\ timeslice_count' = timeslice_count + 1
              /\ updCalls' = updCalls + 1
        /\ (loc \in InLoop /\ loc # "rollover")
           => /\ updCalls' = updCalls
              /\ timeslice_count' = timeslice_count
        /\ updCalls' = timeslice_count' ]_vars

RolledOver ==
    /\ loc = "outerCheck"
    /\ via = "rollover"
    /\ timeslice_count = 1
    /\ updCalls = 1
    /\ cycle_counter = SH4_TIMESLICE

\* C4 as stated: every processor exception is followed by exactly one
\* Do_Exception call with its address and kind and by exactly one drain
\* adjustment, and the next fetch reads from the pc Do_Exception wrote.
EveryExceptionDrained ==
    [][ /\ (loc = "catch" /\ loc' # "catch")
           => /\ excCalls' = excCalls + 1
              /\ excArgs' = ex
              /\ drains' = drains + 1
              /\ cycle_counter' = cycle_counter + EXCEPTION_DRAIN
        /\ (loc = "fetch" /\ loc' # "fetch" /\ handlerPc # -1)
           => addr' = handlerPc ]_vars

\* C4 amended: every processor exception is followed by exactly one
\* Do_Exception call with its address and kind; when that call returns, one
\* drain adjustment is applied and the next fetch reads from the pc it
\* wrote; when that call fails, no drain adjustment is applied and control
\* goes to the catch-all clause.
ExceptionHandledOnce ==
    [][ /\ (loc = "catch" /\ loc' # "catch")
           => /\ excCalls' = excCalls + 1
              /\ excArgs' = ex
              /\ \/ /\ loc' = "outerCheck"
                    /\ drains' = drains + 1
                    /\ cycle_counter' = cycle_counter + EXCEPTION_DRAIN
                    /\ handlerPc' = pc'
                 \/ /\ loc' = "catchall"
                    /\ drains' = drains
                    /\ cycle_counter' = cycle_counter
        /\ (loc \in InLoop /\ loc # "catch")
           => /\ excCalls' = excCalls
              /\ drains' = drains
        /\ (loc = "fetch" /\ loc' # "fetch" /\ handlerPc # -1)
           => addr' = handlerPc ]_vars

ResumedAtHandler ==
    /\ loc = "dispatch"
    /\ excCalls = 1
    /\ drains = 1
    /\ excArgs.expEvn = "Sh4Ex_FpuDisabled"
    /\ addr = 0
    /\ excArgs.epc # 0

\* C5: between two resets the entries of the compiled blocks are pairwise
\* distinct, their 4-byte regions do not overlap and lie inside the buffer.
EntriesUniqueAndValid ==
    \A i, j \in 1..Len(blocks) :
        /\ blocks[i] + spaceNeeded <= bufSize
        /\ i # j => \/ blocks[i] + spaceNeeded <= blocks[j]
                    \/ blocks[j] + spaceNeeded <= blocks[i]

\* C6: a compile call made with at least 4 bytes free advances the cursor by
\* exactly 4, one made with less leaves cursor and free space as they were;
\* so the cursor is 4 times the number of calls that found enough space.
CompileAllOrNothing ==
    /\ [](cursor = spaceNeeded *
                   Cardinality({ i \in 1..Len(blocks) :
                                   blocks[i] + spaceNeeded <= bufSize }))
    /\ [][ Len(blocks') = Len(blocks) + 1
           => /\ bufSize' = bufSize
              /\ IF bufSize - cursor >= spaceNeeded
                 THEN cursor' = cursor + spaceNeeded
                 ELSE cursor' = cursor ]_vars

CompileSkipped ==
    /\ Len(blocks) = 3
    /\ bufSize = MaxBufSize
    /\ cursor = 2 * spaceNeeded
    /\ bufSize - cursor < spaceNeeded

\* C7: a compile call made with less than 4 bytes free leaves the free space
\* as it was and leaves the block's entry unset (null, written -1 here).
SkippedLeavesEntryUnset ==
    [][ (Len(blocks') = Len(blocks) + 1 /\ bufSize - cursor < spaceNeeded)
        => /\ bufSize' - cursor' = bufSize - cursor
           /\ blocks'[Len(blocks')] = -1 ]_vars

\* what has happened since the running flag was cleared during mainloop
HaltBounded ==
    halt.seen =>
        /\ halt.insns <= halt.budget
        /\ halt.rolls <= 1
        /\ halt.rolls = 1 => loc \notin {"fetch", "dispatch", "rollover", "catch"}

ExitOnlyAfterRollover ==
    [][ (loc = "outerCheck" /\ loc' = "exit") => via = "rollover" ]_vars

\* C9 amended: the loop exits on the running flag only at the outer loop
\* condition, reached right after a rollover (budget exhausted) or right
\* after a processor exception was handled; after a normally completed
\* instruction with budget left the next instruction is fetched whatever
\* the running flag is.
ExitOnlyAtOuterCondition ==
    [][ /\ (loc \in InLoop /\ loc' = "exit")
           => /\ loc = "outerCheck"
              /\ ~CpuRunning
              /\ via \in {"rollover", "catch"}
        /\ (loc = "rollover" /\ loc' # "rollover") => cycle_counter <= 0
        /\ (loc = "dispatch" /\ insn_count' = insn_count + 1 /\ cycle_counter' > 0)
           => loc' = "fetch" ]_vars

ExitedAfterException ==
    /\ loc = "exit"
    /\ ~exited_via_exception
    /\ via = "catch"
    /\ timeslice_count = 0
    /\ cycle_counter > 0

\* C10: whenever mainloop has returned the running flag is false, and the
\* outer loop is left for the exit only when the flag is false.
ReturnsHalted ==
    /\ [](loc = "returned" => ~CpuRunning)
    /\ [][ (loc = "outerCheck" /\ loc' = "exit") => ~CpuRunning ]_vars

ReturnedThroughCatchAll ==
    /\ loc = "returned"
    /\ exited_via_exception
    /\ ~halt.seen


\* C11: once a condition that is no processor exception has escaped a fetch,
\* a dispatch, UpdateSystem_INTC or Do_Exception, mainloop fetches and
\* dispatches nothing more, calls neither UpdateSystem_INTC nor Do_Exception
\* again, clears the running flag and returns; it does not re-enter the loop.
AbnormalExitIsFinal ==
    /\ [][ (loc \in {"catchall", "exit"})
           => /\ loc' \in {"catchall", "exit", "returned"}
              /\ loc = "catchall" => (loc' = "catchall" \/ exited_via_exception')
              /\ fetched' = fetched
              /\ opCalls' = opCalls
              /\ updCalls' = updCalls
              /\ excCalls' = excCalls
              /\ insn_count' = insn_count
              /\ loc' = "returned" => ~CpuRunning' ]_vars
    /\ (loc = "catchall") ~> (loc = "returned" /\ ~CpuRunning)

AbnormalExitForcesHalt ==
    /\ loc = "exit"
    /\ exited_via_exception
    /\ CpuRunning
    /\ excCalls = 1
    /\ drains = 0


\* C12: rewrite returns false, and handleException, rewrite, reset and the
\* four canon hooks give back the processor context, the code buffer and the
\* bound references exactly as they found them, in every state the backend
\* reaches while compile calls and the dispatch loop go on.
HooksHaveNoEffect ==
    /\ [](LET st == CurState
          IN /\ handleException(st) = st
             /\ rewrite(st).state = st
             /\ rewrite(st).result = "false"
             /\ reset(st) = st
             /\ canonStart(st) = st
             /\ canonParam(st) = st
             /\ canonCall(st) = st
             /\ canonFinish(st) = st)
    /\ [][ rewriteResult' # rewriteResult
           => /\ rewriteResult' = "false"
              /\ UNCHANGED << ctxVars, bufVars, bindVars, loopVars, histVars,
                              sh4Dynarec, registerCalls >> ]_vars

RewriteCalledInLoop ==
    /\ rewriteResult = "false"
    /\ loc = "dispatch"
    /\ cursor > 0
    /\ Len(blocks) = 2


\* the (n)th instruction of this call has been fetched and nothing has raised
\* a processor exception so far
FetchedWithoutException(n) ==
    /\ loc = "dispatch"
    /\ fetched = n
    /\ excRaised = 0

\* C13 as stated: with a budget of ScenarioCycles at entry and no exception,
\* the budget when instruction ScenarioCycles + 1 is fetched is
\* ScenarioCycles + SH4_TIMESLICE - 0.
ScenarioBudgetKeepsStart ==
    FetchedWithoutException(ScenarioCycles + 1)
        => cycle_counter = ScenarioCycles + SH4_TIMESLICE - 0

\* C13 amended: with a budget of ScenarioCycles at entry and no exception,
\* no rollover happens up to the dispatch of instruction ScenarioCycles, the
\* first rollover happens before instruction ScenarioCycles + 1 is fetched,
\* and the budget at that fetch is SH4_TIMESLICE: the start budget has been
\* spent, one cycle per instruction.
ScenarioRollover ==
    /\ \A n \in 1..ScenarioCycles :
         FetchedWithoutException(n)
             => /\ timeslice_count = 0
                /\ updCalls = 0
                /\ insn_count = n - 1
                /\ cycle_counter = ScenarioCycles - (n - 1) * CYCLES_PER_INSTRUCTION
    /\ FetchedWithoutException(ScenarioCycles + 1)
         => /\ timeslice_count = 1
            /\ updCalls = 1
            /\ insn_count = ScenarioCycles
            /\ cycle_counter = SH4_TIMESLICE

ScenarioNextInstruction ==
    /\ FetchedWithoutException(ScenarioCycles + 1)
    /\ timeslice_count = 1


\* C14: under any sequence of compile calls the cursor stays within the
\* buffer and cursor plus free space never exceeds the capacity; a compile
\* call never moves the cursor back and never moves it past the end.
CursorWithinBuffer ==
    /\ [](/\ 0 <= cursor
          /\ cursor <= bufSize
          /\ getFreeSpace(bufSize, cursor) >= 0
          /\ cursor + getFreeSpace(bufSize, cursor) <= bufSize)
    /\ [][ Len(blocks') = Len(blocks) + 1
           => /\ cursor' >= cursor
              /\ cursor' <= bufSize
              /\ cursor' \in {cursor, cursor + spaceNeeded}
              /\ bufSize' = bufSize ]_vars

CompileRefusedNearEnd ==
    /\ Len(blocks) >= 3
    /\ cursor > 0
    /\ getFreeSpace(bufSize, cursor) > 0
    /\ getFreeSpace(bufSize, cursor) < spaceNeeded


\* C15 as stated: when a processor exception has been handled, cycle_counter
\* is lower by the drain penalty than it was when the exception was raised,
\* so the next rollover comes closer.
ExceptionChargesPenalty ==
    [][ (loc = "catch" /\ loc' = "outerCheck")
        => /\ cycle_counter' = cycle_counter - EXCEPTION_DRAIN
           /\ cycle_counter' < cycle_counter ]_vars


\* C16: a step that raises a processor exception hands it to the
\* per-instruction handler with the running flag untouched; the handler
\* consumes it (one Do_Exception call with its address and kind) and leaves
\* the running flag untouched; control reaches the catch-all clause only
\* with no processor exception in flight; and when the running flag is true
\* after the handler, the next step of the loop is a fetch.
ExceptionConsumedByHandler ==
    [][ /\ excRaised' = excRaised + 1
           => /\ loc' = "catch"
              /\ ex' # NoEx
              /\ CpuRunning' = CpuRunning
        /\ (loc = "catch" /\ loc' # "catch")
           => /\ excCalls' = excCalls + 1
              /\ excArgs' = ex
              /\ ex' = NoEx
              /\ CpuRunning' = CpuRunning
              /\ exited_via_exception' = exited_via_exception
        /\ (loc # "catchall" /\ loc' = "catchall")
           => /\ ex' = NoEx
              /\ excRaised' = excRaised
        /\ (loc = "outerCheck" /\ loc' # "outerCheck" /\ via = "catch")
           => /\ loc' = (IF CpuRunning THEN "fetch" ELSE "exit")
              /\ ~exited_via_exception' ]_vars

DispatchAfterException ==
    /\ loc = "dispatch"
    /\ via = "catch"
    /\ excRaised = 1
    /\ drains = 1
    /\ fetched = 2
    /\ CpuRunning


\* C17: a compile call made while codeBuffer is null reaches no crash,
\* changes nothing of the buffer and leaves the block's entry unset (null,
\* written -1 here).
UnboundCompileIsNoOp ==
    [][ (codeBuffer = "null" /\ (Len(blocks') = Len(blocks) + 1 \/ loc' = "crashed"))
        => /\ loc' # "crashed"
           /\ cursor' = cursor
           /\ bufSize' = bufSize
           /\ blocks'[Len(blocks')] = -1 ]_vars


\* this call of mainloop was entered with the running flag false: the flag
\* is false, no halt request has cleared it during the call and no
\* interrupt step has run yet
EnteredHalted ==
    /\ loc \in InLoop \cup {"catchall", "exit"}
    /\ ~CpuRunning
    /\ ~halt.seen
    /\ timeslice_count = 0

\* C18 as stated: a call of mainloop entered with the running flag false
\* fetches and dispatches no instruction.
NoDispatchWhenHalted ==
    EnteredHalted => (fetched = 0 /\ opCalls = 0 /\ insn_count = 0)


\* C19: the step that raises a processor exception leaves cycle_counter and
\* the instruction count as they were; from there to the next fetch the
\* only change to cycle_counter is one drain adjustment, made when
\* Do_Exception returns, and no rollover counts and no interrupt step runs,
\* whatever the sign of cycle_counter.
RaiseSkipsCostAndRollover ==
    [][ /\ excRaised' = excRaised + 1
           => /\ loc' = "catch"
              /\ cycle_counter' = cycle_counter
              /\ insn_count' = insn_count
              /\ timeslice_count' = timeslice_count
              /\ updCalls' = updCalls
        /\ (loc = "catch" /\ loc' # "catch")
           => /\ cycle_counter' = (IF loc' = "outerCheck"
                                   THEN cycle_counter + EXCEPTION_DRAIN
                                   ELSE cycle_counter)
              /\ drains' = (IF loc' = "outerCheck" THEN drains + 1 ELSE drains)
              /\ insn_count' = insn_count
              /\ timeslice_count' = timeslice_count
              /\ updCalls' = updCalls
        /\ (loc = "outerCheck" /\ loc' # "outerCheck" /\ via = "catch")
           => /\ loc' \in {"fetch", "exit"}
              /\ cycle_counter' = cycle_counter
              /\ timeslice_count' = timeslice_count
              /\ updCalls' = updCalls ]_vars

RaisedOnExhaustedBudget ==
    /\ loc = "dispatch"
    /\ via = "catch"
    /\ fetched = 2
    /\ drains = 1
    /\ timeslice_count = 0
    /\ updCalls = 0
    /\ cycle_counter <= EXCEPTION_DRAIN


\* C20: sh4Dynarec is null or the WasmDynarec instance; it is the instance
\* from the constructor on; once it is not null no step changes it, whatever
\* the number of wasm_dynarec_init, init, compile and mainloop calls; and
\* wasm_dynarec_init changes it only when it is null.
BackendIdentityFixed ==
    /\ [](/\ sh4Dynarec \in {"null", "instance"}
          /\ loc # "static" => sh4Dynarec = "instance")
    /\ [][ /\ sh4Dynarec # "null" => sh4Dynarec' = sh4Dynarec
           /\ (registerCalls' # registerCalls /\ sh4Dynarec' # sh4Dynarec)
              => (sh4Dynarec = "null" /\ sh4Dynarec' = "instance") ]_vars

RegisteredAgainAfterUse ==
    /\ registerCalls = MaxRegisterCalls
    /\ sh4Dynarec = "instance"
    /\ loc = "returned"
    /\ sh4ctx = "ctx"
    /\ Len(blocks) >= 1

====
